---------------------------- MODULE Spec2Model ----------------------------
(***************************************************************************)
(* The export session object of giraffez (src/giraffez/src/exportobject.cc)*)
(* as a state machine.  The Python type _tpt.Export wraps one              *)
(* Giraffez::Connection; every method of the type is one action.           *)
(*                                                                         *)
(* Giraffez::Connection, the encoder and the encoding masks are declared   *)
(* in headers that exportobject.cc includes (connection.h, common.h); the  *)
(* definitions named Conn_*, encoder_* and the mask values follow the      *)
(* written specification of those components.                              *)
(***************************************************************************)
EXTENDS Integers, FiniteSets, Sequences, TLC

(***************************************************************************)
(* Bounds of the model.                                                    *)
(***************************************************************************)
\* Connections one run may create with Export_init (line 49).
MaxInits == 2
\* Buffers a finite export holds before its end of stream.
MaxBuffers == 2
\* How many tenacity-sleep units make up one tenacity hour (3600 seconds in
\* the transport; small here).
SleepsPerHour == 2

(***************************************************************************)
(* 32-bit words.  A uint32_t is the set of the positions of its 1 bits, so *)
(* that &, | and ~ are computed bit by bit as the machine does.            *)
(***************************************************************************)
WordBits == 0 .. 31
BitAnd(a, b) == a \cap b
BitOr(a, b) == a \cup b
BitNot(a) == WordBits \ a

\* The three categories of the encoding word (common.h; "0x%06x", line 132).
ROW_RETURN_MASK == 0 .. 7
DATETIME_RETURN_MASK == 8 .. 15
DECIMAL_RETURN_MASK == 16 .. 23
CategoryMasks == <<ROW_RETURN_MASK, DATETIME_RETURN_MASK, DECIMAL_RETURN_MASK>>
Categories == 1 .. 3

\* The values the encoder supports in each category.
ROW_ENCODING_STRING == {0}
ROW_ENCODING_DICT == {1}
ROW_ENCODING_LIST == {2}
ROW_ENCODING_RAW == {3}
DATETIME_AS_STRING == {8}
DATETIME_AS_GIRAFFE_TYPES == {9}
DECIMAL_AS_STRING == {16}
DECIMAL_AS_FLOAT == {17}
DECIMAL_AS_GIRAFFEZ_DECIMAL == {18}
SupportedValues ==
    << {ROW_ENCODING_STRING, ROW_ENCODING_DICT, ROW_ENCODING_LIST, ROW_ENCODING_RAW},
       {DATETIME_AS_STRING, DATETIME_AS_GIRAFFE_TYPES},
       {DECIMAL_AS_STRING, DECIMAL_AS_FLOAT, DECIMAL_AS_GIRAFFEZ_DECIMAL} >>
ENCODER_SETTINGS_DEFAULT ==
    BitOr(ROW_ENCODING_STRING, BitOr(DATETIME_AS_STRING, DECIMAL_AS_STRING))

\* The bits of word w that lie in category c.
CategoryBits(w, c) == BitAnd(w, CategoryMasks[c])

(***************************************************************************)
(* Inputs.                                                                 *)
(***************************************************************************)
\* The null pointer: a Connection that is none (no Connection has id 0).
NULL == [id |-> 0]
\* A NULL result of a C function.
Failed == "NULL"
NoQuery == "no query"
Queries == {"select 1", "select 2"}
\* Requested masks: in every category no bit, a supported value, or two
\* bits at once (which no encoding supports).
RowRequests == {{}, ROW_ENCODING_STRING, ROW_ENCODING_DICT,
                BitOr(ROW_ENCODING_STRING, ROW_ENCODING_DICT)}
DatetimeRequests == {{}, DATETIME_AS_GIRAFFE_TYPES}
DecimalRequests == {{}, DECIMAL_AS_FLOAT}
RequestedMasks ==
    {BitOr(r, BitOr(d, m)) : r \in RowRequests, d \in DatetimeRequests,
                             m \in DecimalRequests}

\* Attribute keys (TD_Attribute) and the kind of value each expects.
IntKeys == {"TD_MIN_SESSIONS", "TD_MAX_SESSIONS", "TD_MAX_DECIMAL_DIGITS",
            "TD_BLOCK_SIZE", "TD_BUFFER_HEADER_SIZE", "TD_BUFFER_LENGTH_SIZE",
            "TD_BUFFER_MAX_SIZE", "TD_BUFFER_TRAILER_SIZE",
            "TD_TENACITY_HOURS", "TD_TENACITY_SLEEP", "TD_SYSTEM_OPERATOR"}
StringKeys == {"TD_TDP_ID", "TD_USER_NAME", "TD_USER_PASSWORD", "TD_CHARSET",
               "TD_BUFFER_MODE", "TD_SPOOLMODE"}
AttributeKeys == IntKeys \cup StringKeys
IntValue(n) == [kind |-> "int", val |-> n]
StringValue(s) == [kind |-> "string", val |-> s]
\* An integer constant of a Teradata or giraffez header, known by its name.
NamedInt(s) == [kind |-> "named int", val |-> s]
Unset == [kind |-> "unset", val |-> "unset"]
TypeOf(v) == IF v.kind = "named int" THEN "int" ELSE v.kind
\* What a caller passes to add_attribute: a key (known or not) and a value.
CallerKeys == {"TD_MAX_SESSIONS", "TD_UNKNOWN"}
CallerValues == {IntValue(10), StringValue("Spool")}
\* What a caller passes to set_null and set_delimiter.
OverrideValues == {StringValue("|"), IntValue(0)}

VARIABLES
    alloc,      \* the Export object: "none", "live", "freed", "crashed"
    conn,       \* self->conn: NULL or the Connection it points to
    created,    \* Connections constructed so far (new, line 49)
    deleted,    \* Connections deleted so far (delete, line 33)
    handle,     \* the native transport handle of the Connection at conn
    ret,        \* the last call: the method, what it returned, for
                \* set_encoding the mask it was given and the word it handed
                \* to encoder_set_encoding, and whether the call is a close
                \* right after a close
    caller      \* the calling program's position

vars == <<alloc, conn, created, deleted, handle, ret, caller>>

NoHandle == [state |-> "none", releases |-> 0]
Submitted(op, val, request, word) ==
    [op |-> op, val |-> val, request |-> request, submitted |-> word,
     again |-> op = "close" /\ ret.op = "close"]
Return(op, val) == Submitted(op, val, {}, {})

(***************************************************************************)
(* Giraffez::Connection and the encoder.                                   *)
(***************************************************************************)
\* A method of Connection gives a result and the Connection after it.
Outcome(res, c) == [res |-> res, conn |-> c]

\* Connection::Connection(host, username, password)
Conn_new(id) ==
    [id |-> id,
     state |-> "Created",
     attributes |-> [k \in AttributeKeys |-> Unset],
     query |-> NoQuery,
     encoder |-> [Settings |-> ENCODER_SETTINGS_DEFAULT,
                  NullValue |-> Unset, Delimiter |-> Unset],
     remaining |-> 0,
     eos |-> FALSE]

Mutable(c) == c.state \in {"Created", "Configured"}

KindOf(key) == IF key \in IntKeys THEN "int" ELSE "string"

\* Connection::AddAttribute(key, value)
Conn_AddAttribute(c, key, value) ==
    IF ~Mutable(c) THEN Outcome("LifecycleError", c)
    ELSE IF key \notin AttributeKeys \/ TypeOf(value) # KindOf(key)
         THEN Outcome("ConfigurationError", c)
    ELSE Outcome("ok", [c EXCEPT !.attributes[key] = value])

\* Connection::SetQuery(query)
Conn_SetQuery(c, query) ==
    IF ~Mutable(c) THEN Outcome("LifecycleError", c)
    ELSE Outcome("ok", [c EXCEPT !.query = query, !.state = "Configured"])

\* Connection::Columns()
Conn_Columns(c, fails) ==
    IF c.state # "Active" THEN Outcome("LifecycleError", c)
    ELSE IF fails THEN Outcome("ProtocolError", c)
    ELSE Outcome("Columns", c)

\* Connection::GetBuffer()
Conn_GetBuffer(c, fails) ==
    IF c.state # "Active" THEN Outcome("LifecycleError", c)
    ELSE IF fails \/ c.eos THEN Outcome("ProtocolError", c)
    ELSE IF c.remaining > 0
         THEN Outcome("Buffer", [c EXCEPT !.remaining = @ - 1])
    ELSE Outcome("EndOfStream", [c EXCEPT !.eos = TRUE])

\* encoder_set_encoding(encoder, settings): 0 and the settings stored when
\* every category holds a supported value, otherwise -1 and nothing stored.
ValidEncoding(w) ==
    /\ \A cat \in Categories : CategoryBits(w, cat) \in SupportedValues[cat]
    /\ w \subseteq UNION {CategoryMasks[cat] : cat \in Categories}
encoder_set_encoding(e, settings) ==
    IF ValidEncoding(settings)
    THEN [rc |-> 0, encoder |-> [e EXCEPT !.Settings = settings]]
    ELSE [rc |-> -1, encoder |-> e]

\* encoder_set_null(encoder, value) and encoder_set_delimiter(encoder,
\* value): the value stored when it has the kind the encoder expects,
\* otherwise NULL returned and nothing stored.
encoder_set_null(e, value) ==
    IF value.kind = "string"
    THEN [rc |-> "ok", encoder |-> [e EXCEPT !.NullValue = value]]
    ELSE [rc |-> Failed, encoder |-> e]
encoder_set_delimiter(e, value) ==
    IF value.kind = "string"
    THEN [rc |-> "ok", encoder |-> [e EXCEPT !.Delimiter = value]]
    ELSE [rc |-> Failed, encoder |-> e]

\* Connection::Initiate(): the handshake succeeds and opens a finite export
\* of n buffers, or fails and leaves the Connection as it was.
Conn_Initiate(c, succeeds, n) ==
    IF ~Mutable(c) THEN Outcome("LifecycleError", c)
    ELSE IF ~succeeds THEN Outcome("ConnectionError", c)
    ELSE Outcome("ok", [c EXCEPT !.state = "Active", !.remaining = n,
                                 !.eos = FALSE])
\* The handshake attempts one Initiate may make: one per tenacity-sleep
\* interval until the tenacity hours are used up.
TenacityBudget(c) ==
    (c.attributes["TD_TENACITY_HOURS"].val * SleepsPerHour)
        \div c.attributes["TD_TENACITY_SLEEP"].val
\* The native handle after Initiate: held once the handshake succeeded; a
\* handshake that failed partway may already hold it.
HandleAfterInitiate(h, res, partway) ==
    IF res = "ok" \/ (res = "ConnectionError" /\ partway)
    THEN [h EXCEPT !.state = IF @ = "none" THEN "held" ELSE @]
    ELSE h

\* Connection::Terminate(): releases the native handle if one is held.
Conn_Terminate(c) ==
    Outcome("ok", [c EXCEPT !.state = "Terminated", !.remaining = 0,
                            !.eos = FALSE])
HandleAfterTerminate(h) ==
    IF h.state = "held"
    THEN [state |-> "released", releases |-> h.releases + 1]
    ELSE h

(***************************************************************************)
(* The Export type (exportobject.cc).                                      *)
(***************************************************************************)
Init ==
    /\ alloc = "none"
    /\ conn = NULL
    /\ created = 0
    /\ deleted = 0
    /\ handle = NoHandle
    /\ ret = [op |-> "none", val |-> "none", request |-> {},
              submitted |-> {}, again |-> FALSE]
    /\ caller = [mode |-> "free"]

\* A method ends: the Connection after it and the value handed back.
Finish(op, res, c) ==
    /\ conn' = c
    /\ ret' = Return(op, res)
    /\ UNCHANGED <<alloc, created, deleted>>

\* A method reaches through self->conn while it is NULL: the process dies
\* on the access, or the build lets the call come back with some result and
\* the object as it was.
NullDereference(op) ==
    /\ conn = NULL
    /\ \/ alloc' = "crashed" /\ ret' = Return(op, "crash")
       \/ alloc' = alloc /\ ret' \in {Return(op, "ok"), Return(op, "error")}
    /\ UNCHANGED <<conn, created, deleted, handle>>

\* Export_new: tp_alloc gives a zeroed object, so conn is NULL.
Export_new ==
    /\ alloc = "none"
    /\ alloc' = "live"
    /\ conn' = NULL
    /\ ret' = Return("new", "ok")
    /\ UNCHANGED <<created, deleted, handle>>

\* Export_dealloc that also lets go of the transport handle, held or not.
Export_dealloc_releases ==
    /\ alloc = "live"
    /\ alloc' = "freed"
    /\ conn' = NULL
    /\ deleted' = IF conn = NULL THEN deleted ELSE deleted + 1
    /\ handle' = IF handle.state = "none" THEN handle
                 ELSE [state |-> "released", releases |-> handle.releases + 1]
    /\ ret' = Return("dealloc", "ok")
    /\ UNCHANGED created

\* Export_dealloc: delete self->conn (nothing when it is NULL), then tp_free.
Export_dealloc ==
    /\ alloc = "live"
    /\ alloc' = "freed"
    /\ conn' = NULL
    /\ deleted' = IF conn = NULL THEN deleted ELSE deleted + 1
    /\ ret' = Return("dealloc", "ok")
    /\ UNCHANGED <<created, handle>>

\* The attributes with the session bounds of lines 57 and 58, which the
\* source has commented out.
DefaultAttributes_more_sessions ==
    << <<"TD_SYSTEM_OPERATOR", NamedInt("TD_EXPORT")>>,
       <<"TD_TDP_ID", StringValue("host")>>,
       <<"TD_USER_NAME", StringValue("username")>>,
       <<"TD_USER_PASSWORD", StringValue("password")>>,
       <<"TD_MIN_SESSIONS", IntValue(5)>>,
       <<"TD_MAX_SESSIONS", IntValue(32)>>,
       <<"TD_MAX_DECIMAL_DIGITS", IntValue(38)>>,
       <<"TD_CHARSET", StringValue("TERADATA_CHARSET")>>,
       <<"TD_BUFFER_MODE", StringValue("YES")>>,
       <<"TD_BLOCK_SIZE", IntValue(64330)>>,
       <<"TD_BUFFER_HEADER_SIZE", IntValue(2)>>,
       <<"TD_BUFFER_LENGTH_SIZE", IntValue(2)>>,
       <<"TD_BUFFER_MAX_SIZE", NamedInt("TD_ROW_MAX_SIZE")>>,
       <<"TD_BUFFER_TRAILER_SIZE", IntValue(0)>>,
       <<"TD_SPOOLMODE", StringValue("NoSpool")>>,
       <<"TD_TENACITY_HOURS", IntValue(1)>>,
       <<"TD_TENACITY_SLEEP", IntValue(1)>> >>

\* The attributes Export_init adds, in the order of lines 50 to 91.
DefaultAttributes ==
    << <<"TD_SYSTEM_OPERATOR", NamedInt("TD_EXPORT")>>,
       <<"TD_TDP_ID", StringValue("host")>>,
       <<"TD_USER_NAME", StringValue("username")>>,
       <<"TD_USER_PASSWORD", StringValue("password")>>,
       <<"TD_MIN_SESSIONS", IntValue(2)>>,
       <<"TD_MAX_SESSIONS", IntValue(5)>>,
       <<"TD_MAX_DECIMAL_DIGITS", IntValue(38)>>,
       <<"TD_CHARSET", StringValue("TERADATA_CHARSET")>>,
       <<"TD_BUFFER_MODE", StringValue("YES")>>,
       <<"TD_BLOCK_SIZE", IntValue(64330)>>,
       <<"TD_BUFFER_HEADER_SIZE", IntValue(2)>>,
       <<"TD_BUFFER_LENGTH_SIZE", IntValue(2)>>,
       <<"TD_BUFFER_MAX_SIZE", NamedInt("TD_ROW_MAX_SIZE")>>,
       <<"TD_BUFFER_TRAILER_SIZE", IntValue(0)>>,
       <<"TD_SPOOLMODE", StringValue("NoSpool")>>,
       <<"TD_TENACITY_HOURS", IntValue(1)>>,
       <<"TD_TENACITY_SLEEP", IntValue(1)>> >>

\* The Connection after the first n calls of AddAttribute in Export_init;
\* what each call returns is not looked at.  The call numbered failing (none
\* when 0) fails inside the Connection and hands NULL back with nothing
\* stored.
RECURSIVE AddDefaults(_, _, _)
AddDefaults(c, n, failing) ==
    IF n = 0 THEN c
    ELSE IF n = failing THEN AddDefaults(c, n - 1, failing)
    ELSE Conn_AddAttribute(AddDefaults(c, n - 1, failing),
                           DefaultAttributes[n][1],
                           DefaultAttributes[n][2]).conn

\* Export_init(host, username, password)
Export_init(parsed, failing) ==
    /\ alloc = "live"
    /\ created < MaxInits
    /\ IF ~parsed
       THEN /\ ret' = Return("init", "TypeError")
            /\ UNCHANGED <<conn, created, handle>>
       ELSE /\ created' = created + 1
            /\ conn' = AddDefaults(Conn_new(created + 1),
                                   Len(DefaultAttributes), failing)
            /\ handle' = NoHandle
            /\ ret' = Return("init", "ok")
    /\ UNCHANGED <<alloc, deleted>>

\* Export_add_attribute that hands AddAttribute the key before the one it
\* was given (TD_MIN_SESSIONS for TD_MAX_SESSIONS).
Export_add_attribute_wrong_key(parsed, key, value) ==
    /\ alloc = "live"
    /\ IF ~parsed
       THEN Finish("add_attribute", "TypeError", conn)
            /\ UNCHANGED handle
       ELSE IF conn = NULL THEN NullDereference("add_attribute")
       ELSE LET r == Conn_AddAttribute(conn,
                        IF key = "TD_MAX_SESSIONS" THEN "TD_MIN_SESSIONS"
                        ELSE key, value)
            IN  Finish("add_attribute", r.res, r.conn)
                /\ UNCHANGED handle

\* Export_add_attribute that drops what AddAttribute returns and hands
\* None back.
Export_add_attribute_unchecked(parsed, key, value) ==
    /\ alloc = "live"
    /\ IF ~parsed
       THEN Finish("add_attribute", "TypeError", conn)
            /\ UNCHANGED handle
       ELSE IF conn = NULL THEN NullDereference("add_attribute")
       ELSE LET r == Conn_AddAttribute(conn, key, value)
            IN  Finish("add_attribute", "ok", r.conn)
                /\ UNCHANGED handle

\* Export_add_attribute(key, value)
Export_add_attribute(parsed, key, value) ==
    /\ alloc = "live"
    /\ IF ~parsed
       THEN Finish("add_attribute", "TypeError", conn)
            /\ UNCHANGED handle
       ELSE IF conn = NULL THEN NullDereference("add_attribute")
       ELSE LET r == Conn_AddAttribute(conn, key, value)
            IN  Finish("add_attribute", r.res, r.conn)
                /\ UNCHANGED handle

\* Export_close that takes a close of a closed session for an error.
Export_close_again_fails ==
    /\ alloc = "live"
    /\ IF conn = NULL THEN NullDereference("close")
       ELSE LET r == Conn_Terminate(conn)
            IN  /\ Finish("close",
                          IF conn.state = "Terminated" THEN "LifecycleError"
                          ELSE r.res, r.conn)
                /\ handle' = HandleAfterTerminate(handle)

\* Export_close()
Export_close ==
    /\ alloc = "live"
    /\ IF conn = NULL THEN NullDereference("close")
       ELSE LET r == Conn_Terminate(conn)
            IN  /\ Finish("close", r.res, r.conn)
                /\ handle' = HandleAfterTerminate(handle)

\* Export_columns that drops what Columns returns and hands None back.
Export_columns_unchecked(fails) ==
    /\ alloc = "live"
    /\ IF conn = NULL THEN NullDereference("columns")
       ELSE LET r == Conn_Columns(conn, fails)
            IN  Finish("columns", "ok", r.conn)
                /\ UNCHANGED handle

\* Export_columns()
Export_columns(fails) ==
    /\ alloc = "live"
    /\ IF conn = NULL THEN NullDereference("columns")
       ELSE LET r == Conn_Columns(conn, fails)
            IN  Finish("columns", r.res, r.conn)
                /\ UNCHANGED handle

\* Export_get_buffer that drops a NULL from GetBuffer and hands None, the
\* end of the stream, back.
Export_get_buffer_unchecked(fails) ==
    /\ alloc = "live"
    /\ IF conn = NULL THEN NullDereference("get_buffer")
       ELSE LET r == Conn_GetBuffer(conn, fails)
            IN  Finish("get_buffer",
                       IF r.res = "Buffer" THEN "Buffer" ELSE "EndOfStream",
                       r.conn)
                /\ UNCHANGED handle

\* Export_get_buffer()
Export_get_buffer(fails) ==
    /\ alloc = "live"
    /\ IF conn = NULL THEN NullDereference("get_buffer")
       ELSE LET r == Conn_GetBuffer(conn, fails)
            IN  Finish("get_buffer", r.res, r.conn)
                /\ UNCHANGED handle

\* new_settings merged into the default settings, not the stored ones.
MergeSettings_from_default(cur, settings) ==
    LET start == {}
        def == ENCODER_SETTINGS_DEFAULT
        row == IF BitAnd(settings, ROW_RETURN_MASK) # {}
               THEN BitOr(BitAnd(def, BitNot(ROW_RETURN_MASK)), settings)
               ELSE start
        datetime == IF BitAnd(settings, DATETIME_RETURN_MASK) # {}
                    THEN BitOr(BitAnd(def, BitNot(DATETIME_RETURN_MASK)), settings)
                    ELSE row
        decimal == IF BitAnd(settings, DECIMAL_RETURN_MASK) # {}
                   THEN BitOr(BitAnd(def, BitNot(DECIMAL_RETURN_MASK)), settings)
                   ELSE datetime
    IN  decimal
\* new_settings with the request or-ed in and no category cleared first.
MergeSettings_no_clear(cur, settings) == BitOr(cur, settings)
\* new_settings with the request xor-ed into the stored settings.
MergeSettings_toggle(cur, settings) ==
    BitOr(BitAnd(cur, BitNot(settings)), BitAnd(settings, BitNot(cur)))

\* new_settings of Export_set_encoding (lines 117 to 130): it starts at 0
\* and each category the request has bits in assigns it anew from the
\* stored settings.
MergeSettings(cur, settings) ==
    LET start == {}
        row == IF BitAnd(settings, ROW_RETURN_MASK) # {}
               THEN BitOr(BitAnd(cur, BitNot(ROW_RETURN_MASK)), settings)
               ELSE start
        datetime == IF BitAnd(settings, DATETIME_RETURN_MASK) # {}
                    THEN BitOr(BitAnd(cur, BitNot(DATETIME_RETURN_MASK)), settings)
                    ELSE row
        decimal == IF BitAnd(settings, DECIMAL_RETURN_MASK) # {}
                   THEN BitOr(BitAnd(cur, BitNot(DECIMAL_RETURN_MASK)), settings)
                   ELSE datetime
    IN  decimal

\* Export_set_encoding that does not look at the encoder's return code.
SetEncodingResult_unchecked(rc) == "ok"

\* What Export_set_encoding hands back for the encoder's return code (lines
\* 131 to 135); the error is raised as a ValueError.
SetEncodingResult(rc) == IF rc # 0 THEN "EncodingError" ELSE "ok"

\* Export_set_encoding(settings)
Export_set_encoding(parsed, settings) ==
    /\ alloc = "live"
    /\ IF ~parsed
       THEN Finish("set_encoding", "TypeError", conn)
            /\ UNCHANGED handle
       ELSE IF conn = NULL THEN NullDereference("set_encoding")
       ELSE LET new_settings == MergeSettings(conn.encoder.Settings, settings)
                r == encoder_set_encoding(conn.encoder, new_settings)
            IN  /\ conn' = [conn EXCEPT !.encoder = r.encoder]
                /\ ret' = Submitted("set_encoding", SetEncodingResult(r.rc),
                                    settings, new_settings)
                /\ UNCHANGED <<alloc, created, deleted, handle>>

\* Py_RETURN_ERROR(x): hand NULL back when x is NULL.
Py_RETURN_ERROR(rc) == IF rc = Failed THEN "EncodingError" ELSE "ok"

\* Export_set_null(null)
Export_set_null(parsed, value) ==
    /\ alloc = "live"
    /\ IF ~parsed
       THEN Finish("set_null", "TypeError", conn)
            /\ UNCHANGED handle
       ELSE IF conn = NULL THEN NullDereference("set_null")
       ELSE LET r == encoder_set_null(conn.encoder, value)
            IN  Finish("set_null", Py_RETURN_ERROR(r.rc),
                       [conn EXCEPT !.encoder = r.encoder])
                /\ UNCHANGED handle

\* Export_set_delimiter(delimiter)
Export_set_delimiter(parsed, value) ==
    /\ alloc = "live"
    /\ IF ~parsed
       THEN Finish("set_delimiter", "TypeError", conn)
            /\ UNCHANGED handle
       ELSE IF conn = NULL THEN NullDereference("set_delimiter")
       ELSE LET r == encoder_set_delimiter(conn.encoder, value)
            IN  Finish("set_delimiter", Py_RETURN_ERROR(r.rc),
                       [conn EXCEPT !.encoder = r.encoder])
                /\ UNCHANGED handle

\* Export_initiate that does not look at what Initiate returns.
Export_initiate_unchecked(succeeds, n, partway) ==
    /\ alloc = "live"
    /\ IF conn = NULL THEN NullDereference("initiate")
       ELSE LET r == Conn_Initiate(conn, succeeds, n)
            IN  /\ Finish("initiate", "ok", r.conn)
                /\ handle' = HandleAfterInitiate(handle, r.res, partway)

\* Export_initiate that calls Initiate again when it handed NULL back, and
\* so does not return while the handshake fails.
Export_initiate_retries(succeeds, n, partway) ==
    /\ alloc = "live"
    /\ IF conn = NULL THEN NullDereference("initiate")
       ELSE LET r == Conn_Initiate(conn, succeeds, n)
            IN  IF r.res = "ok"
                THEN /\ Finish("initiate", r.res, r.conn)
                     /\ handle' = HandleAfterInitiate(handle, r.res, partway)
                ELSE UNCHANGED <<alloc, conn, created, deleted, handle, ret>>

\* Export_initiate()
Export_initiate(succeeds, n, partway) ==
    /\ alloc = "live"
    /\ IF conn = NULL THEN NullDereference("initiate")
       ELSE LET r == Conn_Initiate(conn, succeeds, n)
            IN  /\ Finish("initiate", r.res, r.conn)
                /\ handle' = HandleAfterInitiate(handle, r.res, partway)

\* Export_set_query that drops what SetQuery returns and hands None back.
Export_set_query_unchecked(parsed, query) ==
    /\ alloc = "live"
    /\ IF ~parsed
       THEN Finish("set_query", "TypeError", conn)
            /\ UNCHANGED handle
       ELSE IF conn = NULL THEN NullDereference("set_query")
       ELSE LET r == Conn_SetQuery(conn, query)
            IN  Finish("set_query", "ok", r.conn)
                /\ UNCHANGED handle

\* Export_set_query(query)
Export_set_query(parsed, query) ==
    /\ alloc = "live"
    /\ IF ~parsed
       THEN Finish("set_query", "TypeError", conn)
            /\ UNCHANGED handle
       ELSE IF conn = NULL THEN NullDereference("set_query")
       ELSE LET r == Conn_SetQuery(conn, query)
            IN  Finish("set_query", r.res, r.conn)
                /\ UNCHANGED handle

(***************************************************************************)
(* The calling program: any method of Export_methods, with any arguments,  *)
(* in any order.                                                           *)
(***************************************************************************)
Free == caller.mode = "free" /\ UNCHANGED caller

\* An argument tuple PyArg_ParseTuple rejects leaves the arguments unset.
NoKey == "TD_UNKNOWN"
NoValue == IntValue(0)

New == Free /\ Export_new
\* Every AddAttribute of Export_init succeeds here: the keys and values of
\* lines 50 to 91 are ones the Connection accepts.
Create == Free /\ \E parsed \in BOOLEAN : Export_init(parsed, 0)
Dealloc == Free /\ Export_dealloc
AddAttribute ==
    /\ Free
    /\ \/ Export_add_attribute(FALSE, NoKey, NoValue)
       \/ \E key \in CallerKeys, value \in CallerValues :
              Export_add_attribute(TRUE, key, value)
Close == Free /\ Export_close
Columns == Free /\ \E fails \in BOOLEAN : Export_columns(fails)
GetBuffer == Free /\ \E fails \in BOOLEAN : Export_get_buffer(fails)
SetEncoding ==
    /\ Free
    /\ \/ Export_set_encoding(FALSE, {})
       \/ \E settings \in RequestedMasks : Export_set_encoding(TRUE, settings)
SetNull ==
    /\ Free
    /\ \/ Export_set_null(FALSE, NoValue)
       \/ \E value \in OverrideValues : Export_set_null(TRUE, value)
SetDelimiter ==
    /\ Free
    /\ \/ Export_set_delimiter(FALSE, NoValue)
       \/ \E value \in OverrideValues : Export_set_delimiter(TRUE, value)
Initiate ==
    /\ Free
    /\ \/ \E n \in 0 .. MaxBuffers : Export_initiate(TRUE, n, FALSE)
       \/ \E partway \in BOOLEAN : Export_initiate(FALSE, 0, partway)
SetQuery ==
    /\ Free
    /\ \/ Export_set_query(FALSE, NoQuery)
       \/ \E query \in Queries : Export_set_query(TRUE, query)

Next ==
    \/ New
    \/ Create
    \/ Dealloc
    \/ AddAttribute
    \/ Close
    \/ Columns
    \/ GetBuffer
    \/ SetEncoding
    \/ SetNull
    \/ SetDelimiter
    \/ Initiate
    \/ SetQuery

Spec == Init /\ [][Next]_vars

(***************************************************************************)
(* A calling program that creates a session and sets two encodings, one    *)
(* category each, one after the other.                                     *)
(***************************************************************************)
\* The masks of one category: every supported value and a two-bit row mask.
SingleCategoryMasks ==
    UNION {SupportedValues[cat] : cat \in Categories}
        \cup {BitOr(ROW_ENCODING_STRING, ROW_ENCODING_DICT)}
\* The category a mask of one category lies in.
CategoryOf(m) == CHOOSE cat \in Categories : CategoryBits(m, cat) # {}

InitOrder ==
    /\ alloc = "none"
    /\ conn = NULL
    /\ created = 0
    /\ deleted = 0
    /\ handle = NoHandle
    /\ ret = [op |-> "none", val |-> "none", request |-> {},
              submitted |-> {}, again |-> FALSE]
    /\ \E m1, m2 \in SingleCategoryMasks :
          /\ CategoryOf(m1) # CategoryOf(m2)
          /\ caller = [mode |-> "order", m1 |-> m1, m2 |-> m2, step |-> 0]

OrderStep(n) ==
    /\ caller.mode = "order"
    /\ caller.step = n
    /\ caller' = [caller EXCEPT !.step = n + 1]

OrderNew == OrderStep(0) /\ Export_new
OrderCreate == OrderStep(1) /\ Export_init(TRUE, 0)
OrderFirst == OrderStep(2) /\ Export_set_encoding(TRUE, caller.m1)
OrderSecond == OrderStep(3) /\ Export_set_encoding(TRUE, caller.m2)
OrderDone == caller.mode = "order" /\ caller.step = 4

NextOrder ==
    \/ OrderNew
    \/ OrderCreate
    \/ OrderFirst
    \/ OrderSecond

SpecOrder == InitOrder /\ [][NextOrder]_vars

(***************************************************************************)
(* A calling program whose Connection may fail inside one of the calls of  *)
(* Export_init, Export_set_encoding or Export_initiate.  It keeps whether  *)
(* a step inside the last call failed.                                     *)
(***************************************************************************)
InitFault ==
    /\ alloc = "none"
    /\ conn = NULL
    /\ created = 0
    /\ deleted = 0
    /\ handle = NoHandle
    /\ ret = [op |-> "none", val |-> "none", request |-> {},
              submitted |-> {}, again |-> FALSE]
    /\ caller = [mode |-> "fault", failed |-> FALSE]

FaultStep(failed) ==
    /\ caller.mode = "fault"
    /\ caller' = [caller EXCEPT !.failed = failed]

FaultNew == FaultStep(FALSE) /\ Export_new
FaultCreate ==
    \E parsed \in BOOLEAN, failing \in 0 .. Len(DefaultAttributes) :
        /\ FaultStep(~parsed \/ failing # 0)
        /\ Export_init(parsed, failing)
FaultSetQuery ==
    \E query \in {"select 1"} :
        /\ conn # NULL
        /\ FaultStep(Conn_SetQuery(conn, query).res # "ok")
        /\ Export_set_query(TRUE, query)
FaultSetEncoding ==
    \E settings \in {{}, ROW_ENCODING_DICT} :
        /\ conn # NULL
        /\ FaultStep(encoder_set_encoding(conn.encoder,
                        MergeSettings(conn.encoder.Settings, settings)).rc # 0)
        /\ Export_set_encoding(TRUE, settings)
FaultInitiate ==
    \E succeeds \in BOOLEAN, n \in 0 .. MaxBuffers :
        /\ conn # NULL
        /\ FaultStep(Conn_Initiate(conn, succeeds, n).res # "ok")
        /\ Export_initiate(succeeds, n, FALSE)
FaultClose ==
    /\ conn # NULL
    /\ FaultStep(Conn_Terminate(conn).res # "ok")
    /\ Export_close

NextFault ==
    \/ FaultNew
    \/ FaultCreate
    \/ FaultSetQuery
    \/ FaultSetEncoding
    \/ FaultInitiate
    \/ FaultClose

SpecFault == InitFault /\ [][NextFault]_vars

(***************************************************************************)
(* A calling program that creates a session, sets any encodings, and then  *)
(* sets one encoding twice in a row.  It keeps what the first of the two   *)
(* calls returned and stored.                                              *)
(***************************************************************************)
InitTwice ==
    /\ alloc = "none"
    /\ conn = NULL
    /\ created = 0
    /\ deleted = 0
    /\ handle = NoHandle
    /\ ret = [op |-> "none", val |-> "none", request |-> {},
              submitted |-> {}, again |-> FALSE]
    /\ \E m \in RequestedMasks :
          caller = [mode |-> "twice", m |-> m, step |-> 0,
                    val |-> "none", stored |-> {}]

TwiceStep(from, to) ==
    /\ caller.mode = "twice"
    /\ caller.step = from
    /\ caller' = [caller EXCEPT !.step = to]

TwiceNew == TwiceStep(0, 1) /\ Export_new
TwiceCreate == TwiceStep(1, 2) /\ Export_init(TRUE, 0)
TwiceBefore ==
    \E settings \in RequestedMasks :
        TwiceStep(2, 2) /\ Export_set_encoding(TRUE, settings)
TwiceFirst ==
    /\ caller.mode = "twice"
    /\ caller.step = 2
    /\ Export_set_encoding(TRUE, caller.m)
    /\ caller' = [caller EXCEPT !.step = 3, !.val = ret'.val,
                                !.stored = conn'.encoder.Settings]
TwiceSecond == TwiceStep(3, 4) /\ Export_set_encoding(TRUE, caller.m)
TwiceDone == caller.mode = "twice" /\ caller.step = 4

NextTwice ==
    \/ TwiceNew
    \/ TwiceCreate
    \/ TwiceBefore
    \/ TwiceFirst
    \/ TwiceSecond

SpecTwice == InitTwice /\ [][NextTwice]_vars

(***************************************************************************)
(* A calling program that creates a session, may set the tenacity and the  *)
(* query, and calls initiate.  The call is followed attempt by attempt:    *)
(* attempts counts the handshakes of the call that have failed.            *)
(***************************************************************************)
TenacityKeys == {"TD_TENACITY_HOURS", "TD_TENACITY_SLEEP"}
TenacityValues == {IntValue(1), IntValue(2)}

InitTenacity ==
    /\ alloc = "none"
    /\ conn = NULL
    /\ created = 0
    /\ deleted = 0
    /\ handle = NoHandle
    /\ ret = [op |-> "none", val |-> "none", request |-> {},
              submitted |-> {}, again |-> FALSE]
    /\ caller = [mode |-> "tenacity", phase |-> "new", attempts |-> 0]

TenacityPhase(from, to) ==
    /\ caller.mode = "tenacity"
    /\ caller.phase = from
    /\ caller' = [caller EXCEPT !.phase = to]

TenacityNew == TenacityPhase("new", "create") /\ Export_new
TenacityCreate == TenacityPhase("create", "configure") /\ Export_init(TRUE, 0)
TenacityAddAttribute ==
    \E key \in TenacityKeys, value \in TenacityValues :
        /\ TenacityPhase("configure", "configure")
        /\ Export_add_attribute(TRUE, key, value)
TenacitySetQuery ==
    \E query \in Queries :
        /\ TenacityPhase("configure", "configure")
        /\ Export_set_query(TRUE, query)
\* initiate is called: Initiate starts its first handshake.
TenacityCall ==
    /\ TenacityPhase("configure", "handshake")
    /\ UNCHANGED <<alloc, conn, created, deleted, handle, ret>>
\* A handshake fails with budget left: Initiate sleeps and tries again.
TenacityRetry ==
    /\ caller.mode = "tenacity"
    /\ caller.phase = "handshake"
    /\ caller.attempts + 1 < TenacityBudget(conn)
    /\ caller' = [caller EXCEPT !.attempts = @ + 1]
    /\ UNCHANGED <<alloc, conn, created, deleted, handle, ret>>
\* A handshake succeeds.
TenacitySucceed ==
    \E n \in 0 .. MaxBuffers :
        /\ TenacityPhase("handshake", "returned")
        /\ Export_initiate(TRUE, n, FALSE)
\* The handshake that uses up the budget fails: Initiate hands NULL back.
TenacityGiveUp ==
    \E partway \in BOOLEAN :
        /\ caller.mode = "tenacity"
        /\ caller.phase = "handshake"
        /\ caller.attempts + 1 >= TenacityBudget(conn)
        /\ Export_initiate(FALSE, 0, partway)
        /\ caller' = [caller EXCEPT
                        !.phase = IF ret'.op = "initiate" THEN "returned"
                                  ELSE "handshake"]

NextTenacity ==
    \/ TenacityNew
    \/ TenacityCreate
    \/ TenacityAddAttribute
    \/ TenacitySetQuery
    \/ TenacityCall
    \/ TenacityRetry
    \/ TenacitySucceed
    \/ TenacityGiveUp

\* The thread inside Initiate keeps running: a handshake that failed is
\* followed by the next one or by the return.  Nothing makes a handshake
\* succeed.
SpecTenacity ==
    /\ InitTenacity
    /\ [][NextTenacity]_vars
    /\ WF_vars(TenacityRetry \/ TenacityGiveUp)

(***************************************************************************)
(* Properties.                                                             *)
(***************************************************************************)
\* A session exists: the object is live and holds a Connection.
Session == alloc = "live" /\ conn # NULL

\* C1: a Close leaves the session Terminated and returns success; a Close
\* right after a Close returns success too and changes nothing: the
\* Connection, the transport handle and the object stay as the first left
\* them.
C1_CloseIdempotent ==
    /\ [](Session /\ ret.op = "close"
            => conn.state = "Terminated" /\ ret.val = "ok")
    /\ [][Session /\ ret.op = "close" /\ ret'.op = "close"
            => /\ ret'.val = "ok"
               /\ conn' = conn
               /\ handle' = handle
               /\ <<alloc, created, deleted>>' = <<alloc, created, deleted>>]_vars
C1_Witness ==
    /\ Session
    /\ ret.op = "close" /\ ret.again /\ ret.val = "ok"
    /\ conn.state = "Terminated"
    /\ handle.state = "released"

C3_OtherCategoriesKept ==
    [][( /\ Session
         /\ ret'.op = "set_encoding" /\ ret'.val # "TypeError"
         /\ \E cat \in Categories : CategoryBits(ret'.request, cat) # {} )
       => \A cat \in Categories :
            CategoryBits(ret'.request, cat) = {}
            => /\ CategoryBits(conn'.encoder.Settings, cat)
                    = CategoryBits(conn.encoder.Settings, cat)
               /\ CategoryBits(ret'.submitted, cat)
                    = CategoryBits(conn.encoder.Settings, cat)]_vars
C3_Witness ==
    /\ Session
    /\ ret.op = "set_encoding" /\ ret.val = "ok"
    /\ conn.encoder.Settings
         = BitOr(ROW_ENCODING_DICT,
                 BitOr(DATETIME_AS_GIRAFFE_TYPES, DECIMAL_AS_STRING))

\* C4: in every category the request has a bit in, the word SetEncoding
\* submits holds exactly the request's bits of that category, and so do the
\* settings stored when the call succeeds, for all requested categories at
\* once.
C4_RequestedCategoriesReplaced ==
    [][(Session /\ ret'.op = "set_encoding" /\ ret'.val # "TypeError")
       => \A cat \in Categories :
            CategoryBits(ret'.request, cat) # {}
            => /\ CategoryBits(ret'.submitted, cat)
                    = CategoryBits(ret'.request, cat)
               /\ ret'.val = "ok"
                    => CategoryBits(conn'.encoder.Settings, cat)
                         = CategoryBits(ret'.request, cat)]_vars

\* The default settings with the categories of m1 and m2 overwritten.
Overwritten(m1, m2) ==
    UNION {IF CategoryBits(m1, cat) # {} THEN CategoryBits(m1, cat)
           ELSE IF CategoryBits(m2, cat) # {} THEN CategoryBits(m2, cat)
           ELSE CategoryBits(ENCODER_SETTINGS_DEFAULT, cat) :
           cat \in Categories}
\* The mask holds a value its category supports.
Accepted(m) == CategoryBits(m, CategoryOf(m)) \in SupportedValues[CategoryOf(m)]

\* C5 as stated: for any two masks of different categories, SetEncoding of
\* one and then of the other, in either order, stores the default with the
\* categories of both overwritten.
C5_AnyOrder_AllMasks ==
    OrderDone => /\ conn.encoder.Settings = Overwritten(caller.m1, caller.m2)
                 /\ conn.encoder.Settings = Overwritten(caller.m2, caller.m1)
\* C5: for any two masks of different categories that each hold a supported
\* value of their category, SetEncoding of one and then of the other, in
\* either order, stores the default with the categories of both overwritten
\* and the third category as it was.
C5_AnyOrder ==
    (OrderDone /\ Accepted(caller.m1) /\ Accepted(caller.m2))
    => /\ conn.encoder.Settings = Overwritten(caller.m1, caller.m2)
       /\ conn.encoder.Settings = Overwritten(caller.m2, caller.m1)
       /\ ret.val = "ok"
C5_Witness ==
    /\ OrderDone
    /\ caller.m1 = DECIMAL_AS_FLOAT
    /\ caller.m2 = ROW_ENCODING_LIST
    /\ conn.encoder.Settings
         = BitOr(ROW_ENCODING_LIST, BitOr(DATETIME_AS_STRING, DECIMAL_AS_FLOAT))

\* C6: a SetEncoding whose merged word fails the validity check returns an
\* EncodingError and leaves the encoder, and the whole Connection, as it was.
C6_RejectedMergeNotStored ==
    [][( /\ Session
         /\ ret'.op = "set_encoding" /\ ret'.val # "TypeError"
         /\ ~ValidEncoding(ret'.submitted) )
       => /\ ret'.val = "EncodingError"
          /\ conn'.encoder = conn.encoder
          /\ conn' = conn]_vars
C6_Witness ==
    /\ Session
    /\ ret.op = "set_encoding" /\ ret.val = "EncodingError"
    /\ ~ValidEncoding(ret.submitted)
    /\ conn.encoder.Settings # ENCODER_SETTINGS_DEFAULT

\* C7: an AddAttribute on an Active session returns a ConfigurationError or
\* a LifecycleError and leaves the attributes as they were.
C7_NoAttributeAfterActive ==
    [][( /\ Session /\ conn.state = "Active"
         /\ ret'.op = "add_attribute" /\ ret'.val # "TypeError" )
       => /\ ret'.val \in {"ConfigurationError", "LifecycleError"}
          /\ conn'.attributes = conn.attributes
          /\ conn' = conn]_vars
C7_Witness ==
    /\ Session /\ conn.state = "Active"
    /\ ret.op = "add_attribute" /\ ret.val = "LifecycleError"
    /\ conn.attributes["TD_MAX_SESSIONS"] = IntValue(10)

\* C8: Columns on a session that is not Active fails with a LifecycleError,
\* returns no columns and changes nothing; columns are returned only while
\* the session is Active.
C8_ColumnsOnlyWhenActive ==
    /\ [][(Session /\ conn.state # "Active" /\ ret'.op = "columns")
          => /\ ret'.val = "LifecycleError"
             /\ conn' = conn
             /\ handle' = handle]_vars
    /\ [](Session /\ ret.op = "columns" /\ ret.val = "Columns"
            => conn.state = "Active")
C8_Witness ==
    /\ Session /\ conn.state = "Terminated"
    /\ ret.op = "columns" /\ ret.val = "LifecycleError"

\* C9: get_buffer on a session that is not Active is rejected with an
\* error, takes nothing from the stream and changes nothing; a buffer or the
\* end of the stream is returned only while the session is Active.
C9_BufferOnlyWhenActive ==
    /\ [][(Session /\ conn.state # "Active" /\ ret'.op = "get_buffer")
          => /\ ret'.val = "LifecycleError"
             /\ conn' = conn
             /\ handle' = handle]_vars
    /\ [](Session /\ ret.op = "get_buffer"
                  /\ ret.val \in {"Buffer", "EndOfStream"}
            => conn.state = "Active")
C9_Witness ==
    /\ Session /\ conn.state = "Configured"
    /\ ret.op = "get_buffer" /\ ret.val = "LifecycleError"

\* C10: SetQuery succeeds and stores the text when the session is Created
\* or Configured; when it is Active or Terminated it fails with a
\* LifecycleError and the stored query stays.
C10_SetQueryByState ==
    [][(Session /\ ret'.op = "set_query") =>
       \A query \in Queries :
         Export_set_query(TRUE, query)
         => IF conn.state \in {"Created", "Configured"}
            THEN ret'.val = "ok" /\ conn'.query = query
            ELSE ret'.val = "LifecycleError" /\ conn'.query = conn.query]_vars
C10_Witness ==
    /\ Session /\ conn.state = "Active"
    /\ ret.op = "set_query" /\ ret.val = "LifecycleError"
    /\ conn.query = "select 1"

\* C11: an Initiate that succeeds leaves the session Active; an Initiate
\* that fails returns an error and leaves the Connection (its state,
\* attributes, query and encoder) as it was, still open to Initiate and
\* Close.
C11_InitiateAllOrNothing ==
    [][(Session /\ ret'.op = "initiate")
       => /\ ret'.val \in {"ok", "ConnectionError", "LifecycleError"}
          /\ ret'.val = "ok" => Mutable(conn) /\ conn'.state = "Active"
          /\ ret'.val # "ok" => conn' = conn]_vars
C11_Witness ==
    /\ Session /\ conn.state = "Configured"
    /\ ret.op = "initiate" /\ ret.val = "ConnectionError"
    /\ conn.query = "select 1"
    /\ conn.attributes["TD_MAX_SESSIONS"] = IntValue(10)

C13_DefaultsAfterCreate ==
    (Session /\ ret.op = "init" /\ ret.val = "ok")
    => /\ conn.attributes["TD_MIN_SESSIONS"] = IntValue(2)
       /\ conn.attributes["TD_MAX_SESSIONS"] = IntValue(5)
       /\ conn.attributes["TD_MAX_DECIMAL_DIGITS"] = IntValue(38)
       /\ conn.attributes["TD_BUFFER_HEADER_SIZE"] = IntValue(2)
       /\ conn.attributes["TD_BUFFER_LENGTH_SIZE"] = IntValue(2)
       /\ conn.attributes["TD_BUFFER_TRAILER_SIZE"] = IntValue(0)
       /\ conn.attributes["TD_SPOOLMODE"] = StringValue("NoSpool")
       /\ conn.attributes["TD_TENACITY_HOURS"] = IntValue(1)
       /\ conn.attributes["TD_TENACITY_SLEEP"] = IntValue(1)
C13_Witness ==
    /\ Session /\ ret.op = "init" /\ ret.val = "ok"
    /\ conn.state = "Created"
    /\ conn.attributes["TD_MAX_SESSIONS"] = IntValue(5)

\* C14: within one session only add_attribute changes the attributes; an
\* add_attribute that succeeds stores its value under its key, and whether
\* it succeeds or not it leaves every other key as it was.  So an override
\* stays until the next add_attribute of the same key.
C14_OverrideStays ==
    [][(Session /\ conn'.id = conn.id)
       => IF ret'.op = "add_attribute"
          THEN \A key \in CallerKeys, value \in CallerValues :
                 Export_add_attribute(TRUE, key, value)
                 => /\ \A k \in AttributeKeys \ {key} :
                         conn'.attributes[k] = conn.attributes[k]
                    /\ ret'.val = "ok" => conn'.attributes[key] = value
          ELSE conn'.attributes = conn.attributes]_vars
C14_Witness ==
    /\ Session /\ conn.state = "Terminated"
    /\ ret.op = "close"
    /\ conn.attributes["TD_MAX_SESSIONS"] = IntValue(10)
    /\ conn.attributes["TD_MIN_SESSIONS"] = IntValue(2)
    /\ conn.query = "select 2"
    /\ conn.encoder.Settings # ENCODER_SETTINGS_DEFAULT

\* C15: set_null and set_delimiter called on an Active session return an
\* error and leave the encoder's null marker and delimiter as they were.
C15_NoMarkerAfterActive ==
    [][(Session /\ conn.state = "Active"
          /\ ret'.op \in {"set_null", "set_delimiter"})
       => /\ ret'.val # "ok"
          /\ conn'.encoder.NullValue = conn.encoder.NullValue
          /\ conn'.encoder.Delimiter = conn.encoder.Delimiter]_vars

\* C18: a set_encoding whose mask has no bit in any of the three categories
\* submits to the validity check the settings held before the call, and
\* the settings stored after the call are those settings.
C18_EmptyMaskKeepsSettings ==
    [][(Session /\ ret'.op = "set_encoding" /\ ret'.val # "TypeError"
          /\ \A c \in Categories : CategoryBits(ret'.request, c) = {})
       => /\ ret'.submitted = conn.encoder.Settings
          /\ conn'.encoder.Settings = conn.encoder.Settings]_vars

\* The methods of Export_methods, by the name each returns under.
MethodOps ==
    {"add_attribute", "close", "columns", "get_buffer", "initiate",
     "set_encoding", "set_null", "set_delimiter", "set_query"}

\* C20: the object owns every Connection that was created and not deleted,
\* which is at most one, and no method has gone through self->conn while it
\* was NULL.
C20_OneOwnedConnection ==
    /\ created - deleted = (IF conn # NULL THEN 1 ELSE 0)
    /\ alloc # "crashed"
    /\ (ret.op \in MethodOps /\ ret.val # "TypeError") => conn # NULL

\* C17: a call in which a step failed does not return success.
C17_NoErrorSwallowed ==
    (caller.mode = "fault" /\ caller.failed) => ret.val # "ok"

\* C19: when a set_encoding is accepted, the same set_encoding right after
\* it is accepted too and stores the settings the first one stored.
C19_SetEncodingIdempotent ==
    (TwiceDone /\ caller.val = "ok")
    => /\ ret.op = "set_encoding" /\ ret.val = "ok"
       /\ conn.encoder.Settings = caller.stored
C19_Witness ==
    /\ TwiceDone /\ caller.val = "ok"
    /\ caller.m = BitOr(ROW_ENCODING_DICT, DATETIME_AS_GIRAFFE_TYPES)
    /\ ret.val = "ok"
    /\ conn.encoder.Settings
         = BitOr(ROW_ENCODING_DICT,
                 BitOr(DATETIME_AS_GIRAFFE_TYPES, DECIMAL_AS_FLOAT))

\* C16: every initiate call returns, with success and the session Active
\* or with ConnectionError once the tenacity budget is used up; while it
\* runs it has made fewer failed handshakes than the budget allows, one per
\* tenacity-sleep interval.
Handshaking == caller.mode = "tenacity" /\ caller.phase = "handshake"
Returned == caller.mode = "tenacity" /\ caller.phase = "returned"
C16_InitiateReturns ==
    /\ [](Handshaking => caller.attempts < TenacityBudget(conn))
    /\ [](Returned
            => /\ ret.op = "initiate"
               /\ ret.val \in {"ok", "ConnectionError"}
               /\ ret.val = "ok" => conn.state = "Active"
               /\ ret.val = "ConnectionError"
                    => caller.attempts + 1 = TenacityBudget(conn))
    /\ Handshaking ~> Returned
C16_Witness ==
    /\ Returned
    /\ ret.val = "ConnectionError"
    /\ caller.attempts >= 1
    /\ caller.attempts + 1 = TenacityBudget(conn)
    /\ conn.attributes["TD_TENACITY_HOURS"] = IntValue(2)

=============================================================================
